---- MODULE Spec2Model ----
(***************************************************************************)
(* Presence registry and direct-message pipeline of                        *)
(* backend/src/lib/socket.js (initializeSocket).                           *)
(*                                                                         *)
(* Every await of the source splits a handler in two: the part that runs   *)
(* up to the await, and the part that resumes when the awaited call        *)
(* returns or throws.  Handlers of different connections interleave at     *)
(* these points, as on the Node.js event loop.                             *)
(***************************************************************************)
EXTENDS Integers, Sequences, FiniteSets, TLC

\* ---- bounds ----------------------------------------------------------
MaxConns == 3
MaxSends == 2
MaxLen == 2
MaxFriendRequests == 1
\* Handshakes and sendMessage events together.
MaxEvents == 4

\* ---- values ----------------------------------------------------------
\* User documents of the User collection, by clerkId.
UserRecords == {"u1", "u2"}
\* A clerkId no User document carries.
Ghost == "ghost"
\* handshake.auth.userId absent (undefined or "" are both falsy).
NoToken == ""
\* socket.user before the middleware has set it.
NoUser == "null"
\* What Map.get returns for an absent key; socket ids are 1..MaxConns.
NoSocket == 0

Handles == 1..MaxConns
Tokens == UserRecords \cup {Ghost, NoToken}
ReceiverIds == UserRecords
Chars == {" ", "a"}

RECURSIVE SeqsUpTo(_)
SeqsUpTo(n) ==
    IF n = 0 THEN {<<>>}
    ELSE LET shorter == SeqsUpTo(n - 1)
         IN  shorter \cup {Append(s, c) : s \in {t \in shorter : Len(t) = n - 1}, c \in Chars}

\* A sender a client names in its payload; the handler destructures only
\* receiverId and content.
ClaimedSender == "u2"

\* The payloads of a sendMessage event: receiverId and content, where
\* content may be missing from the payload, and a senderId field on top.
Payloads ==
    [receiverId : ReceiverIds, hasContent : {TRUE}, content : SeqsUpTo(MaxLen),
     senderId : {ClaimedSender}]
        \cup [receiverId : ReceiverIds, hasContent : {FALSE}, content : {<<>>},
              senderId : {ClaimedSender}]

\* The FriendRequest documents that can be in the collection.
FriendRequestDocs ==
    {r \in [senderId : UserRecords, receiverId : UserRecords, status : {"accepted", "pending"}] :
        r.senderId # r.receiverId}

\* ---- String.prototype.trim ------------------------------------------
RECURSIVE TrimStart(_)
TrimStart(s) ==
    IF s # <<>> /\ Head(s) = " " THEN TrimStart(Tail(s)) ELSE s

RECURSIVE TrimEnd(_)
TrimEnd(s) ==
    IF s # <<>> /\ s[Len(s)] = " " THEN TrimEnd(SubSeq(s, 1, Len(s) - 1)) ELSE s

\* Trim as trimStart alone would do it.
TrimLeadingOnly(s) == TrimStart(s)

Trim(s) == TrimEnd(TrimStart(s))

\* content?.trim(): undefined when content is missing.  Undefined and the
\* empty string are both falsy at the check that follows, and nothing
\* after the check tells them apart, so both are <<>> here.
TrimmedContent(data) ==
    IF data.hasContent THEN Trim(data.content) ELSE <<>>

\* ---- Map (insertion-ordered sequence of <<key, value>>) ----------------
MapHas(m, k) == \E i \in 1..Len(m) : m[i][1] = k

\* Map.get that takes the first entry whatever its key.
MapGetFirstEntry(m, k) == IF m = <<>> THEN NoSocket ELSE m[1][2]

MapGet(m, k) ==
    IF MapHas(m, k)
    THEN LET i == CHOOSE j \in 1..Len(m) : m[j][1] = k IN m[i][2]
    ELSE NoSocket

\* Map.set as a push onto a list of pairs would do it.
MapSetAlwaysAppend(m, k, v) == Append(m, <<k, v>>)

MapSet(m, k, v) ==
    IF MapHas(m, k)
    THEN [i \in 1..Len(m) |-> IF m[i][1] = k THEN <<k, v>> ELSE m[i]]
    ELSE Append(m, <<k, v>>)

RECURSIVE MapDelete(_, _)
MapDelete(m, k) ==
    IF m = <<>> THEN <<>>
    ELSE IF Head(m)[1] = k THEN MapDelete(Tail(m), k)
    ELSE <<Head(m)>> \o MapDelete(Tail(m), k)

\* Array.from(map.keys())
MapKeys(m) == [i \in 1..Len(m) |-> m[i][1]]

MapValues(m) == {m[i][2] : i \in 1..Len(m)}

SeqToSet(s) == {s[i] : i \in 1..Len(s)}

\* ---- state -----------------------------------------------------------
VARIABLES
    conn,           \* per socket id: handshake token, socket.user, lifecycle
    userSockets,    \* the module-level Map userId -> socket.id
    friendRequests, \* the FriendRequest collection (read only here)
    sends,          \* the sendMessage handler invocations, in arrival order
    messages,       \* the Message collection, in creation order
    notifications,  \* the Notification collection, in creation order
    broadcasts,     \* the io.emit events, in order
    outbox          \* per socket id: the events emitted to that socket, in order

vars == <<conn, userSockets, friendRequests, sends, messages, notifications, broadcasts, outbox>>

\* ---- identity resolver (io.use) ---------------------------------------
\* User.findOne({ clerkId: userId })
FindUser(userId) == IF userId \in UserRecords THEN userId ELSE NoUser

\* The middleware with a catch block that goes on to next().
AuthAcceptsDespiteFault(fault, user) == user # NoUser

\* next() is called without an error only when the lookup returned a user.
AuthAccepts(fault, user) == ~fault /\ user # NoUser

\* ---- friendship gate ----------------------------------------------------
\* The query without its status filter.
FindAnyRequest(docs, userId, receiverId) ==
    {r \in docs :
        \/ r.senderId = userId /\ r.receiverId = receiverId
        \/ r.senderId = receiverId /\ r.receiverId = userId}

\* FriendRequest.findOne({ $or: [...], status: "accepted" })
FindAcceptedRequest(docs, userId, receiverId) ==
    {r \in docs :
        /\ r.status = "accepted"
        /\ \/ r.senderId = userId /\ r.receiverId = receiverId
           \/ r.senderId = receiverId /\ r.receiverId = userId}

ErrEmpty == "Message cannot be empty"
ErrNotFriends == "You can only message users who have accepted your friend request"
ErrFault == "Failed to send message"

\* The gate with a lookup whose failure is swallowed.
FriendshipGateFailOpen(fault, found) ==
    IF fault THEN ""
    ELSE IF found = {} THEN ErrNotFriends
    ELSE ""

\* The error thrown at the friendship check, "" when the send goes on.
FriendshipGate(fault, found) ==
    IF fault THEN ErrFault
    ELSE IF found = {} THEN ErrNotFriends
    ELSE ""

\* Message.create with its rejection swallowed.
MessageCreateSwallowed(fault) == FALSE

\* await Message.create / await Notification.create: a rejected promise
\* throws into the catch block.
MessageCreateThrows(fault) == fault

\* Notification.create with its rejection swallowed.
NotificationCreateSwallowed(fault) == FALSE

NotificationCreateThrows(fault) == fault

\* ---- events -------------------------------------------------------------
\* The presence event with the action tag of a connect whatever happened.
StatusUpdateAlwaysConnected(userId, action, map) ==
    [event |-> "user_status_update", userId |-> userId, action |-> "connected",
     onlineUsers |-> MapKeys(map)]

StatusUpdate(userId, action, map) ==
    [event |-> "user_status_update", userId |-> userId, action |-> action,
     onlineUsers |-> MapKeys(map)]

\* `send` tells which handler invocation emitted the error.
MessageError(socketId, text, s) ==
    [event |-> "messageError", to |-> socketId, message |-> text, send |-> s]

\* The body of the connection handler before the listeners are attached.
OnConnection(map, userId, socketId) ==
    LET set == MapSet(map, userId, socketId)
    IN  [map |-> set, emit |-> StatusUpdate(userId, "connected", set)]

\* The disconnect listener announcing the departure without the delete.
OnDisconnectKeepsEntry(map, userId, socketId) ==
    [map |-> map, emit |-> StatusUpdate(userId, "disconnected", MapDelete(map, userId))]

\* The disconnect listener with the roster read before the delete.
OnDisconnectStaleRoster(map, userId, socketId) ==
    [map |-> MapDelete(map, userId), emit |-> StatusUpdate(userId, "disconnected", map)]

\* The disconnect listener.
OnDisconnect(map, userId, socketId) ==
    LET deleted == MapDelete(map, userId)
    IN  [map |-> deleted, emit |-> StatusUpdate(userId, "disconnected", deleted)]

NewMessage(id, userId, receiverId, trimmedContent) ==
    [_id |-> id, senderId |-> userId, receiverId |-> receiverId, content |-> trimmedContent]

\* The notification addressed to the sender.
NewNotificationForSender(receiverId, fullName, messageId) ==
    [userId |-> fullName, message |-> <<"New message from", fullName>>,
     type |-> "message", messageId |-> messageId]

NewNotification(receiverId, fullName, messageId) ==
    [userId |-> receiverId, message |-> <<"New message from", fullName>>,
     type |-> "message", messageId |-> messageId]

\* The fan-out with the whole payload sent back to the sender.
DeliveryEmitsPayloadToSender(receiverSocketId, socketId, message, notification) ==
    (IF receiverSocketId # NoSocket
     THEN <<[event |-> "messageUpdate", to |-> receiverSocketId,
             message |-> message, notification |-> notification]>>
     ELSE <<>>)
    \o <<[event |-> "messageUpdate", to |-> socketId,
           message |-> message, notification |-> notification]>>

\* The fan-out with the confirmation inside the receiver-online branch.
DeliveryEmitsConfirmWhenOnline(receiverSocketId, socketId, message, notification) ==
    IF receiverSocketId # NoSocket
    THEN <<[event |-> "messageUpdate", to |-> receiverSocketId,
            message |-> message, notification |-> notification],
           [event |-> "messageUpdate", to |-> socketId, message |-> message]>>
    ELSE <<>>

\* The fan-out after both documents are stored.
DeliveryEmits(receiverSocketId, socketId, message, notification) ==
    (IF receiverSocketId # NoSocket
     THEN <<[event |-> "messageUpdate", to |-> receiverSocketId,
             message |-> message, notification |-> notification]>>
     ELSE <<>>)
    \o <<[event |-> "messageUpdate", to |-> socketId, message |-> message]>>

\* socket.emit / io.to(id).emit: each event joins the outbox of its socket.
RECURSIVE Emit(_, _)
Emit(box, events) ==
    IF events = <<>> THEN box
    ELSE LET e == Head(events)
         IN  Emit([box EXCEPT ![e.to] = Append(@, e)], Tail(events))

\* io.emit: the event goes to every socket of the namespace, which are the
\* sockets whose connection handler has run and which have not closed.
IoEmit(event, c) == event @@ [to |-> {h \in Handles : c[h].state = "open"}]

\* ---- initial state ------------------------------------------------------
Init ==
    /\ conn = [h \in Handles |-> [state |-> "new", token |-> NoToken, user |-> NoUser, fault |-> FALSE]]
    /\ userSockets = <<>>
    /\ friendRequests \in {d \in SUBSET FriendRequestDocs : Cardinality(d) <= MaxFriendRequests}
    /\ sends = <<>>
    /\ messages = <<>>
    /\ notifications = <<>>
    /\ broadcasts = <<>>
    /\ outbox = [h \in Handles |-> <<>>]

\* The client events received so far: handshakes and sendMessage events.
Events == Cardinality({h \in Handles : conn[h].state # "new"}) + Len(sends)

\* ---- connection lifecycle -----------------------------------------------
\* A transport handshake reaches the middleware; it runs up to the await.
Handshake(h, token) ==
    /\ conn[h].state = "new"
    /\ \A g \in Handles : g < h => conn[g].state # "new"
    /\ Events < MaxEvents
    /\ conn' = [conn EXCEPT ![h].token = token,
                            ![h].state = IF token = NoToken THEN "rejected" ELSE "pending"]
    /\ UNCHANGED <<userSockets, friendRequests, sends, messages, notifications, broadcasts, outbox>>

\* User.findOne returns or throws; on next() the connection handler runs.
MiddlewareReturn(h, fault) ==
    /\ conn[h].state = "pending"
    /\ LET user == FindUser(conn[h].token)
       IN  IF AuthAccepts(fault, user)
           THEN LET c == OnConnection(userSockets, user, h)
                IN  /\ conn' = [conn EXCEPT ![h].user = user, ![h].state = "open", ![h].fault = fault]
                    /\ userSockets' = c.map
                    /\ broadcasts' = Append(broadcasts, IoEmit(c.emit, conn'))
           ELSE /\ conn' = [conn EXCEPT ![h].state = "rejected", ![h].fault = fault]
                /\ UNCHANGED <<userSockets, broadcasts>>
    /\ UNCHANGED <<friendRequests, sends, messages, notifications, outbox>>

Disconnect(h) ==
    /\ conn[h].state = "open"
    /\ conn' = [conn EXCEPT ![h].state = "closed"]
    /\ LET d == OnDisconnect(userSockets, conn[h].user, h)
       IN  /\ userSockets' = d.map
           /\ broadcasts' = Append(broadcasts, IoEmit(d.emit, conn'))
    /\ UNCHANGED <<friendRequests, sends, messages, notifications, outbox>>

\* ---- sendMessage --------------------------------------------------------
\* True of a payload whose content is missing or holds nothing but spaces
\* (kept with the invocation as a record of its input).
Blank(data) == ~data.hasContent \/ \A i \in 1..Len(data.content) : data.content[i] = " "

\* The sender taken from the payload.
SenderIdFromPayload(socketUser, data) == data.senderId

\* const userId = socket.user.clerkId: the listener reads the sender from
\* the closure of its connection handler.
SenderId(socketUser, data) == socketUser

\* The listener dropping the sender from the registry when it rejects a send.
SendMessageDropsSenderOnError(h, data) ==
    /\ conn[h].state = "open"
    /\ Len(sends) < MaxSends
    /\ Events < MaxEvents
    /\ LET s == Len(sends) + 1
           trimmedContent == TrimmedContent(data)
           inv == [conn |-> h, userId |-> SenderId(conn[h].user, data),
                   receiverId |-> data.receiverId, content |-> trimmedContent,
                   blank |-> Blank(data), lookup |-> FALSE, fault |-> "none", messageId |-> 0]
       IN  IF trimmedContent = <<>>
           THEN /\ sends' = Append(sends, inv @@ [pc |-> "error"])
                /\ outbox' = Emit(outbox, <<MessageError(h, ErrEmpty, s)>>)
                /\ userSockets' = MapDelete(userSockets, conn[h].user)
           ELSE /\ sends' = Append(sends, [inv EXCEPT !.lookup = TRUE] @@ [pc |-> "friendLookup"])
                /\ UNCHANGED <<outbox, userSockets>>
    /\ UNCHANGED <<conn, friendRequests, messages, notifications, broadcasts>>

\* The listener up to the first await (or to the catch block).
SendMessage(h, data) ==
    /\ conn[h].state = "open"
    /\ Len(sends) < MaxSends
    /\ Events < MaxEvents
    /\ LET s == Len(sends) + 1
           trimmedContent == TrimmedContent(data)
           inv == [conn |-> h, userId |-> SenderId(conn[h].user, data),
                   receiverId |-> data.receiverId, content |-> trimmedContent,
                   blank |-> Blank(data), lookup |-> FALSE, fault |-> "none", messageId |-> 0]
       IN  IF trimmedContent = <<>>
           THEN /\ sends' = Append(sends, inv @@ [pc |-> "error"])
                /\ outbox' = Emit(outbox, <<MessageError(h, ErrEmpty, s)>>)
           ELSE /\ sends' = Append(sends, [inv EXCEPT !.lookup = TRUE] @@ [pc |-> "friendLookup"])
                /\ UNCHANGED outbox
    /\ UNCHANGED <<conn, userSockets, friendRequests, messages, notifications, broadcasts>>

\* The listener resuming only while its socket is connected.
ResumesWhileConnected(s, stage) ==
    /\ s \in 1..Len(sends)
    /\ sends[s].pc = stage
    /\ conn[sends[s].conn].state = "open"

\* The call send s awaits at the stage settles and the listener resumes;
\* the disconnect listener cancels nothing.
Resumes(s, stage) ==
    /\ s \in 1..Len(sends)
    /\ sends[s].pc = stage

\* FriendRequest.findOne returns or throws.
FriendLookupReturn(s, fault) ==
    /\ Resumes(s, "friendLookup")
    /\ LET userId == sends[s].userId
           found == FindAcceptedRequest(friendRequests, userId, sends[s].receiverId)
           err == FriendshipGate(fault, found)
           ghost == IF fault THEN "friendLookup" ELSE "none"
       IN  IF err = ""
           THEN /\ sends' = [sends EXCEPT ![s].pc = "messageCreate", ![s].fault = ghost]
                /\ UNCHANGED outbox
           ELSE /\ sends' = [sends EXCEPT ![s].pc = "error", ![s].fault = ghost]
                /\ outbox' = Emit(outbox, <<MessageError(sends[s].conn, err, s)>>)
    /\ UNCHANGED <<conn, userSockets, friendRequests, messages, notifications, broadcasts>>

\* Message.create returns the stored document or throws.
MessageCreateReturn(s, fault) ==
    /\ Resumes(s, "messageCreate")
    /\ LET userId == sends[s].userId
           id == Len(messages) + 1
           message == NewMessage(id, userId, sends[s].receiverId, sends[s].content)
       IN  IF MessageCreateThrows(fault)
           THEN /\ sends' = [sends EXCEPT ![s].pc = "error", ![s].fault = "messageCreate"]
                /\ outbox' = Emit(outbox, <<MessageError(sends[s].conn, ErrFault, s)>>)
                /\ UNCHANGED messages
           ELSE /\ sends' = [sends EXCEPT ![s].pc = "notificationCreate", ![s].messageId = id,
                                          ![s].fault = IF fault THEN "messageCreate" ELSE @]
                /\ messages' = Append(messages, message)
                /\ UNCHANGED outbox
    /\ UNCHANGED <<conn, userSockets, friendRequests, notifications, broadcasts>>

\* Notification.create returns or throws; on return the fan-out runs.
NotificationCreateReturn(s, fault) ==
    /\ Resumes(s, "notificationCreate")
    /\ LET socketId == sends[s].conn
           receiverId == sends[s].receiverId
           message == messages[sends[s].messageId]
           notification == NewNotification(receiverId, conn[socketId].user, message._id)
       IN  IF NotificationCreateThrows(fault)
           THEN /\ sends' = [sends EXCEPT ![s].pc = "error", ![s].fault = "notificationCreate"]
                /\ outbox' = Emit(outbox, <<MessageError(socketId, ErrFault, s)>>)
                /\ UNCHANGED notifications
           ELSE /\ sends' = [sends EXCEPT ![s].pc = "delivered",
                                          ![s].fault = IF fault THEN "notificationCreate" ELSE @]
                /\ notifications' = Append(notifications, notification)
                /\ outbox' = Emit(outbox, DeliveryEmits(MapGet(userSockets, receiverId), socketId,
                                                        message, notification))
    /\ UNCHANGED <<conn, userSockets, friendRequests, messages, broadcasts>>

\* ---- specification --------------------------------------------------------
Next ==
    \/ \E h \in Handles, token \in Tokens : Handshake(h, token)
    \/ \E h \in Handles, fault \in BOOLEAN : MiddlewareReturn(h, fault)
    \/ \E h \in Handles : Disconnect(h)
    \/ \E h \in Handles, data \in Payloads : SendMessage(h, data)
    \/ \E s \in 1..MaxSends, fault \in BOOLEAN : FriendLookupReturn(s, fault)
    \/ \E s \in 1..MaxSends, fault \in BOOLEAN : MessageCreateReturn(s, fault)
    \/ \E s \in 1..MaxSends, fault \in BOOLEAN : NotificationCreateReturn(s, fault)

Spec == Init /\ [][Next]_vars

\* Every call a send awaits returns or throws in the end.
FairSpec ==
    /\ Spec
    /\ \A s \in 1..MaxSends :
          /\ WF_vars(\E fault \in BOOLEAN : FriendLookupReturn(s, fault))
          /\ WF_vars(\E fault \in BOOLEAN : MessageCreateReturn(s, fault))
          /\ WF_vars(\E fault \in BOOLEAN : NotificationCreateReturn(s, fault))

\* ---- vocabulary of the properties ------------------------------------------
\* The socket ids the registry holds for a user, read off its entries.
RegisteredFor(map, u) == {map[i][2] : i \in {j \in 1..Len(map) : map[j][1] = u}}

RegistryKeySet(map) == {map[i][1] : i \in 1..Len(map)}

\* An accepted friendship between a and b, in either direction.
Friends(a, b) ==
    \E r \in friendRequests :
        /\ r.status = "accepted"
        /\ {r.senderId, r.receiverId} = {a, b}

SendIds == 1..Len(sends)

Sender(s) == conn[sends[s].conn].user

\* Positions of the events of one kind in the outbox of a socket.
ErrorsOf(h, s) ==
    {i \in 1..Len(outbox[h]) :
        outbox[h][i].event = "messageError" /\ outbox[h][i].send = s}

UpdatesOf(h, id) ==
    {i \in 1..Len(outbox[h]) :
        outbox[h][i].event = "messageUpdate" /\ outbox[h][i].message._id = id}

\* The send was answered by one messageError, on the sender's socket only.
AnsweredByError(s) ==
    /\ Cardinality(ErrorsOf(sends[s].conn, s)) = 1
    /\ \A h \in Handles \ {sends[s].conn} : ErrorsOf(h, s) = {}

\* No messageUpdate in any outbox carries a message from a to b.
NoUpdateBetween(a, b) ==
    \A h \in Handles : \A i \in 1..Len(outbox[h]) :
        outbox[h][i].event = "messageUpdate" =>
            ~(outbox[h][i].message.senderId = a /\ outbox[h][i].message.receiverId = b)

\* The events a step adds to the outbox of a socket.
NewEvents(h) == SubSeq(outbox'[h], Len(outbox[h]) + 1, Len(outbox'[h]))

Registers(h) == conn[h].state = "pending" /\ conn'[h].state = "open"

Disconnects(h) == conn[h].state = "open" /\ conn'[h].state = "closed"

Delivers(s) ==
    /\ s \in SendIds
    /\ sends[s].pc = "notificationCreate"
    /\ sends'[s].pc = "delivered"

\* ---- C1 ---------------------------------------------------------------------
\* C1: a disconnect of a socket that is not the one on record for its user
\* leaves the user's registry entry in place, and the roster it broadcasts
\* still lists the user.
C1_StaleDisconnectKeepsEntry ==
    [][\A h \in Handles :
          (Disconnects(h) /\ RegisteredFor(userSockets, conn[h].user) \notin {{}, {h}})
              => /\ RegisteredFor(userSockets', conn[h].user) = RegisteredFor(userSockets, conn[h].user)
                 /\ conn[h].user \in SeqToSet(broadcasts'[Len(broadcasts')].onlineUsers)]_vars

\* ---- C2 ---------------------------------------------------------------------
\* C2: the registry never holds two entries for one user, and a registration
\* of (U, h) leaves the registry mapping U to h whatever it held before,
\* without closing any other socket.
C2_OneEntryPerUser ==
    /\ [](\A u \in UserRecords : Cardinality({i \in 1..Len(userSockets) : userSockets[i][1] = u}) <= 1)
    /\ [][\A h \in Handles :
             Registers(h)
                 => /\ RegisteredFor(userSockets', conn'[h].user) = {h}
                    /\ \A g \in Handles \ {h} : conn'[g].state = conn[g].state]_vars

\* A second socket of a user has taken the entry over while the first is open.
C2_Witness ==
    \E h, g \in Handles :
        /\ h # g
        /\ conn[h].state = "open" /\ conn[g].state = "open"
        /\ conn[h].user = conn[g].user
        /\ h < g
        /\ RegisteredFor(userSockets, conn[h].user) = {g}

\* ---- C3 ---------------------------------------------------------------------
\* The handshake of h cannot be resolved: no token, no user document for the
\* token, or a lookup that threw.
FailsResolution(h) ==
    /\ conn[h].state # "new"
    /\ \/ conn[h].token = NoToken
       \/ conn[h].token \notin UserRecords
       \/ conn[h].fault

\* C3: a socket whose identity resolution fails is never in the registry, is
\* never announced by a user_status_update, never has a sendMessage handled
\* and is never emitted to.
C3_UnresolvedNeverRegistered ==
    /\ \A h \in Handles :
          FailsResolution(h)
              => /\ conn[h].state \in {"pending", "rejected"}
                 /\ \A u \in UserRecords : h \notin RegisteredFor(userSockets, u)
                 /\ \A s \in SendIds : sends[s].conn # h
                 /\ outbox[h] = <<>>
    /\ Cardinality({i \in 1..Len(broadcasts) : broadcasts[i].action = "connected"})
          = Cardinality({h \in Handles : conn[h].state \in {"open", "closed"} /\ ~FailsResolution(h)})

\* A lookup that threw for a token of an existing user, and a token without
\* a user document, both refused, while another socket is registered.
C3_Witness ==
    /\ \E h \in Handles : conn[h].state = "rejected" /\ conn[h].fault /\ conn[h].token \in UserRecords
    /\ \E h \in Handles : conn[h].state = "rejected" /\ conn[h].token = Ghost
    /\ userSockets # <<>>

\* ---- C4 ---------------------------------------------------------------------
\* C4: without an accepted friendship between sender and receiver no Message
\* and no Notification of that pair is stored, no messageUpdate for the pair
\* is emitted, the send never gets past the friendship check, and once the
\* check has run the sender's socket holds one messageError for the send.
C4_NonFriendRejected ==
    /\ \A i \in 1..Len(messages) : Friends(messages[i].senderId, messages[i].receiverId)
    /\ \A s \in SendIds :
          ~Friends(Sender(s), sends[s].receiverId)
              => /\ sends[s].pc \in {"friendLookup", "error"}
                 /\ sends[s].messageId = 0
                 /\ \A i \in 1..Len(notifications) :
                       ~(notifications[i].userId = sends[s].receiverId
                         /\ messages[notifications[i].messageId].senderId = Sender(s))
                 /\ NoUpdateBetween(Sender(s), sends[s].receiverId)
                 /\ (sends[s].pc = "error" => AnsweredByError(s))

\* A non-blank send between users with only a pending request was refused at
\* the check itself.
C4_Witness ==
    \E s \in SendIds :
        /\ sends[s].pc = "error"
        /\ ~sends[s].blank
        /\ sends[s].fault = "none"
        /\ ~Friends(Sender(s), sends[s].receiverId)
        /\ \E r \in friendRequests :
              r.status = "pending" /\ {r.senderId, r.receiverId} = {Sender(s), sends[s].receiverId}

\* ---- C5 ---------------------------------------------------------------------
\* C5: a send whose content is missing or blank ends at validation with one
\* messageError to the sender, before any friendship lookup is issued and
\* with nothing stored; every stored Message has non-empty content without
\* leading or trailing whitespace.
C5_BlankRejectedFirst ==
    /\ \A s \in SendIds :
          sends[s].blank
              => /\ sends[s].pc = "error"
                 /\ ~sends[s].lookup
                 /\ sends[s].messageId = 0
                 /\ AnsweredByError(s)
                 /\ \A i \in ErrorsOf(sends[s].conn, s) : outbox[sends[s].conn][i].message = ErrEmpty
    /\ Len(messages) <= Cardinality({s \in SendIds : ~sends[s].blank})
    /\ Len(notifications) <= Len(messages)
    /\ \A i \in 1..Len(messages) :
          LET c == messages[i].content
          IN  c # <<>> /\ c[1] # " " /\ c[Len(c)] # " "

\* A blank send was refused and another send stored its message.
C5_Witness ==
    /\ \E s \in SendIds : sends[s].blank /\ sends[s].pc = "error"
    /\ messages # <<>>

\* ---- C6 ---------------------------------------------------------------------
\* C6: when the second store returns and the registry holds a socket for the
\* receiver, that socket gets one messageUpdate with the message and its
\* notification, the sender's socket gets one messageUpdate with the message
\* and no notification field, and nothing else is emitted.
C6_DeliveredWhenOnline ==
    [][\A s \in 1..MaxSends :
          (Delivers(s) /\ RegisteredFor(userSockets, sends[s].receiverId) # {})
              => LET c == sends[s].conn
                     m == messages[sends[s].messageId]
                     withNote == [event : {"messageUpdate"}, to : RegisteredFor(userSockets, sends[s].receiverId),
                                  message : {m}, notification : {notifications'[Len(notifications')]}]
                     bare == [event |-> "messageUpdate", to |-> c, message |-> m]
                 IN  /\ m.senderId = Sender(s) /\ m.receiverId = sends[s].receiverId
                     /\ notifications'[Len(notifications')].messageId = m._id
                     /\ notifications'[Len(notifications')].userId = m.receiverId
                     /\ \E r \in RegisteredFor(userSockets, sends[s].receiverId) :
                           /\ Cardinality({i \in 1..Len(NewEvents(r)) : NewEvents(r)[i] \in withNote}) = 1
                           /\ Cardinality({i \in 1..Len(NewEvents(c)) : NewEvents(c)[i] = bare}) = 1
                           /\ Len(NewEvents(r)) + (IF r = c THEN 0 ELSE Len(NewEvents(c))) = 2
                           /\ \A h \in Handles \ {r, c} : NewEvents(h) = <<>>]_vars

\* A send was delivered to a registered socket of the receiver.
C6_Witness ==
    \E s \in SendIds : \E h \in Handles :
        /\ sends[s].pc = "delivered"
        /\ h # sends[s].conn
        /\ conn[h].user = sends[s].receiverId
        /\ \E i \in UpdatesOf(h, sends[s].messageId) : "notification" \in DOMAIN outbox[h][i]
        /\ \E i \in UpdatesOf(sends[s].conn, sends[s].messageId) :
              "notification" \notin DOMAIN outbox[sends[s].conn][i]

\* ---- C7 ---------------------------------------------------------------------
\* C7: when the second store returns and the registry holds no socket for the
\* receiver, both documents are stored, the only event emitted is the
\* confirmation to the sender, and no other step ever emits a messageUpdate
\* (so nothing is delivered later, whoever connects).
C7_DroppedWhenOffline ==
    [][/\ \A s \in 1..MaxSends :
             (Delivers(s) /\ RegisteredFor(userSockets, sends[s].receiverId) = {})
                 => LET c == sends[s].conn
                        m == messages[sends[s].messageId]
                    IN  /\ messages' = messages
                        /\ Len(notifications') = Len(notifications) + 1
                        /\ notifications'[Len(notifications')].messageId = m._id
                        /\ NewEvents(c) = <<[event |-> "messageUpdate", to |-> c, message |-> m]>>
                        /\ \A h \in Handles \ {c} : NewEvents(h) = <<>>
       /\ \A h \in Handles : \A i \in 1..Len(NewEvents(h)) :
             NewEvents(h)[i].event = "messageUpdate"
                 => \E s \in 1..MaxSends :
                       Delivers(s) /\ NewEvents(h)[i].message._id = sends[s].messageId]_vars

\* The receiver of a delivered send holds a registered socket and was never
\* sent the message.
C7_Witness ==
    \E s \in SendIds :
        /\ sends[s].pc = "delivered"
        /\ RegisteredFor(userSockets, sends[s].receiverId) # {}
        /\ \A h \in Handles \ {sends[s].conn} : UpdatesOf(h, sends[s].messageId) = {}
        /\ Cardinality(UpdatesOf(sends[s].conn, sends[s].messageId)) = 1

\* ---- C8 ---------------------------------------------------------------------
\* C8: the roster of every user_status_update is the key set of the registry
\* as the triggering update left it: with the user on a connect, without the
\* user on a disconnect.
C8_RosterAfterUpdate ==
    [][broadcasts' # broadcasts
          => LET b == broadcasts'[Len(broadcasts')]
             IN  /\ Len(broadcasts') = Len(broadcasts) + 1
                 /\ SeqToSet(b.onlineUsers) = RegistryKeySet(userSockets')
                 /\ Len(b.onlineUsers) = Cardinality(RegistryKeySet(userSockets'))
                 /\ \A h \in Handles : Registers(h) =>
                       b.action = "connected" /\ b.userId = conn'[h].user
                           /\ b.userId \in SeqToSet(b.onlineUsers)
                 /\ \A h \in Handles : Disconnects(h) =>
                       b.action = "disconnected" /\ b.userId = conn[h].user
                           /\ b.userId \notin SeqToSet(b.onlineUsers)]_vars

\* A connect announced with a roster of two, and a disconnect announced.
C8_Witness ==
    /\ \E i \in 1..Len(broadcasts) :
          broadcasts[i].action = "connected" /\ Len(broadcasts[i].onlineUsers) = 2
    /\ \E i \in 1..Len(broadcasts) :
          broadcasts[i].action = "disconnected" /\ broadcasts[i].onlineUsers # <<>>

\* ---- C9 ---------------------------------------------------------------------
\* C9: a send whose friendship lookup threw stores nothing, emits no
\* messageUpdate and is answered by one messageError to the sender.
C9_GateFailsClosed ==
    /\ \A s \in SendIds :
          sends[s].fault = "friendLookup"
              => /\ sends[s].pc = "error"
                 /\ sends[s].messageId = 0
                 /\ AnsweredByError(s)
    /\ Len(messages) = Cardinality({s \in SendIds : sends[s].messageId # 0})
    /\ \A i \in 1..Len(notifications) :
          \E s \in SendIds : sends[s].messageId = notifications[i].messageId
    /\ \A h \in Handles : \A i \in 1..Len(outbox[h]) :
          outbox[h][i].event = "messageUpdate"
              => \E s \in SendIds : sends[s].messageId = outbox[h][i].message._id

\* The lookup threw for a pair of friends.
C9_Witness ==
    \E s \in SendIds :
        /\ sends[s].fault = "friendLookup"
        /\ Friends(Sender(s), sends[s].receiverId)
        /\ sends[s].pc = "error"

\* ---- C10 --------------------------------------------------------------------
\* C10: every stored Notification refers to a Message stored before it; a
\* send whose Notification store threw leaves its Message stored, has no
\* Notification, emitted no messageUpdate and is answered by one
\* messageError to the sender.
C10_NoRollback ==
    /\ \A i \in 1..Len(notifications) : notifications[i].messageId \in 1..Len(messages)
    /\ \A s \in SendIds :
          sends[s].pc \in {"notificationCreate", "delivered"} => sends[s].messageId \in 1..Len(messages)
    /\ \A s \in SendIds :
          sends[s].fault = "notificationCreate"
              => /\ sends[s].pc = "error"
                 /\ sends[s].messageId \in 1..Len(messages)
                 /\ messages[sends[s].messageId] =
                        [_id |-> sends[s].messageId, senderId |-> Sender(s),
                         receiverId |-> sends[s].receiverId, content |-> sends[s].content]
                 /\ \A i \in 1..Len(notifications) : notifications[i].messageId # sends[s].messageId
                 /\ \A h \in Handles : UpdatesOf(h, sends[s].messageId) = {}
                 /\ AnsweredByError(s)

\* The Notification store threw while the receiver was registered.
C10_Witness ==
    \E s \in SendIds :
        /\ sends[s].fault = "notificationCreate"
        /\ sends[s].pc = "error"
        /\ RegisteredFor(userSockets, sends[s].receiverId) # {}

\* ---- C11 --------------------------------------------------------------------
\* C11: every failed send (blank content, no friendship, a lookup or a store
\* that threw) ends in the catch block, answered by one messageError on the
\* sender's socket; every messageError in an outbox belongs to a failed send
\* of that very socket, and every messageUpdate to a send that succeeded, so
\* no other socket hears of a failed attempt.
C11_FailureAnsweredToSenderOnly ==
    /\ \A s \in SendIds :
          (\/ sends[s].blank
           \/ sends[s].fault # "none"
           \/ (~Friends(Sender(s), sends[s].receiverId) /\ sends[s].pc # "friendLookup"))
              => sends[s].pc = "error"
    /\ \A s \in SendIds :
          sends[s].pc = "error"
              => /\ AnsweredByError(s)
                 /\ \A h \in Handles : UpdatesOf(h, sends[s].messageId) = {}
    /\ \A h \in Handles : \A i \in 1..Len(outbox[h]) :
          LET e == outbox[h][i]
          IN  /\ e.event \in {"messageError", "messageUpdate"}
              /\ e.to = h
              /\ e.event = "messageError"
                    => e.send \in SendIds /\ sends[e.send].conn = h /\ sends[e.send].pc = "error"
              /\ e.event = "messageUpdate"
                    => \E s \in SendIds : sends[s].pc = "delivered" /\ sends[s].messageId = e.message._id

\* Message.create threw while the receiver held a registered socket, which
\* was emitted nothing.
C11_Witness ==
    \E s \in SendIds : \E r \in Handles :
        /\ sends[s].pc = "error"
        /\ sends[s].fault = "messageCreate"
        /\ RegisteredFor(userSockets, sends[s].receiverId) = {r}
        /\ r # sends[s].conn
        /\ outbox[r] = <<>>

\* ---- C12 --------------------------------------------------------------------
\* C12: the sender of every stored Message is the user the handshake of the
\* sending socket was resolved to, whatever sender the payload names, and
\* that same user is the one the friendship check was made for.
C12_SenderFromConnection ==
    /\ \A i \in 1..Len(messages) : \E s \in SendIds : sends[s].messageId = i
    /\ \A s \in SendIds :
          sends[s].messageId # 0
              => /\ messages[sends[s].messageId].senderId = conn[sends[s].conn].token
                 /\ conn[sends[s].conn].token \in UserRecords
    /\ \A s \in SendIds :
          sends[s].pc \in {"messageCreate", "notificationCreate", "delivered"}
              => Friends(conn[sends[s].conn].token, sends[s].receiverId)

\* A Message stored for a socket of u1 whose payload named another sender.
C12_Witness ==
    \E s \in SendIds :
        /\ sends[s].messageId # 0
        /\ conn[sends[s].conn].token # ClaimedSender
        /\ messages[sends[s].messageId].senderId # ClaimedSender

\* ---- C13 --------------------------------------------------------------------
\* C13: a disconnect leaves every send as it is; a send whose socket has
\* closed can still take its next step at every stage, and that step stores
\* the Message, then the Notification, and emits the messageUpdate to the
\* socket registered for the receiver, as for an open socket.
C13_DisconnectCancelsNothing ==
    /\ [](\A s \in 1..MaxSends :
            (s \in SendIds /\ conn[sends[s].conn].state = "closed")
                => /\ sends[s].pc = "friendLookup" => ENABLED FriendLookupReturn(s, FALSE)
                   /\ sends[s].pc = "messageCreate" => ENABLED MessageCreateReturn(s, FALSE)
                   /\ sends[s].pc = "notificationCreate" => ENABLED NotificationCreateReturn(s, FALSE))
    /\ [][/\ (\E h \in Handles : Disconnects(h))
                => sends' = sends /\ messages' = messages /\ notifications' = notifications
          /\ \A s \in 1..MaxSends :
                (s \in SendIds /\ conn[sends[s].conn].state = "closed")
                    => /\ (sends[s].pc = "messageCreate" /\ sends'[s].pc = "notificationCreate")
                            => /\ Len(messages') = Len(messages) + 1
                               /\ messages'[Len(messages')].senderId = Sender(s)
                               /\ sends'[s].messageId = Len(messages')
                       /\ Delivers(s)
                            => /\ Len(notifications') = Len(notifications) + 1
                               /\ notifications'[Len(notifications')].messageId = sends[s].messageId
                               /\ \A r \in RegisteredFor(userSockets, sends[s].receiverId) :
                                     \E i \in 1..Len(NewEvents(r)) :
                                        /\ NewEvents(r)[i].event = "messageUpdate"
                                        /\ NewEvents(r)[i].message._id = sends[s].messageId
                                        /\ "notification" \in DOMAIN NewEvents(r)[i]]_vars

\* The only socket of the sender closed, then the only socket of the receiver
\* registered, and that socket was sent the message with its notification.
C13_Witness ==
    \E s \in SendIds : \E r \in Handles :
        /\ sends[s].pc = "delivered"
        /\ conn[sends[s].conn].state = "closed"
        /\ \A h \in Handles \ {sends[s].conn} : conn[h].token # conn[sends[s].conn].token
        /\ conn[r].user = sends[s].receiverId
        /\ \A h \in Handles \ {r} : conn[h].token # conn[r].token
        /\ \E i \in UpdatesOf(r, sends[s].messageId) : "notification" \in DOMAIN outbox[r][i]
        /\ \E i, j \in 1..Len(broadcasts) :
              /\ i < j
              /\ broadcasts[i].action = "disconnected" /\ broadcasts[i].userId = Sender(s)
              /\ broadcasts[j].action = "connected" /\ broadcasts[j].userId = sends[s].receiverId

\* ---- C14 --------------------------------------------------------------------
\* C14: the step that ends a successful send emits the payload with the
\* notification to exactly the socket the registry holds for the receiver in
\* that very step (to none when it holds none), emits nothing to any socket
\* but that one and the sender's, and no other step emits a messageUpdate.
C14_DeliveryToRegisteredHandleOnly ==
    [][/\ \A s \in 1..MaxSends :
             Delivers(s)
                 => /\ userSockets' = userSockets
                    /\ \A h \in Handles :
                          (\E i \in 1..Len(NewEvents(h)) : "notification" \in DOMAIN NewEvents(h)[i])
                              <=> h \in RegisteredFor(userSockets, sends[s].receiverId)
                    /\ \A h \in Handles :
                          NewEvents(h) # <<>>
                              => h \in RegisteredFor(userSockets, sends[s].receiverId) \cup {sends[s].conn}
                    /\ \A h \in Handles : \A i \in 1..Len(NewEvents(h)) :
                          /\ NewEvents(h)[i].event = "messageUpdate"
                          /\ NewEvents(h)[i].message = messages[sends[s].messageId]
       /\ (\E h \in Handles : outbox'[h] # outbox[h] /\ outbox'[h][Len(outbox'[h])].event = "messageUpdate")
             => \E s \in 1..MaxSends : Delivers(s)]_vars

\* Two open sockets of the receiver: the one on record was sent the message,
\* the superseded one nothing.
C14_Witness ==
    \E s \in SendIds : \E h1, h2 \in Handles :
        /\ sends[s].pc = "delivered"
        /\ h1 # h2
        /\ conn[h1].state = "open" /\ conn[h2].state = "open"
        /\ conn[h1].user = sends[s].receiverId /\ conn[h2].user = sends[s].receiverId
        /\ RegisteredFor(userSockets, sends[s].receiverId) = {h2}
        /\ UpdatesOf(h2, sends[s].messageId) # {}
        /\ outbox[h1] = <<>>

\* ---- C15 --------------------------------------------------------------------
\* C15: of two sends received in order on one socket, the later one has
\* neither stored its Message nor been answered while the earlier one is
\* still under way.
C15_SendsOfOneSocketInOrder ==
    \A s1, s2 \in SendIds :
        (s1 < s2 /\ sends[s1].conn = sends[s2].conn)
            => ((sends[s2].messageId # 0 \/ sends[s2].pc \in {"error", "delivered"})
                    => sends[s1].pc \in {"error", "delivered"})

\* ---- C16 --------------------------------------------------------------------
\* C16: every stored Notification has type 'message', refers to a stored
\* Message and is addressed to the receiver of that Message; no two
\* Notifications refer to one Message; a send that ran to its end without a
\* store throwing has exactly one Notification for its Message, and a send
\* that failed without a store throwing has stored no Message.
C16_OneNotificationPerMessage ==
    /\ \A i \in 1..Len(notifications) :
          /\ notifications[i].type = "message"
          /\ notifications[i].messageId \in 1..Len(messages)
          /\ notifications[i].userId = messages[notifications[i].messageId].receiverId
          /\ notifications[i].messageId = messages[notifications[i].messageId]._id
    /\ \A i, j \in 1..Len(notifications) :
          i # j => notifications[i].messageId # notifications[j].messageId
    /\ \A i \in 1..Len(messages) : messages[i]._id = i
    /\ \A s \in SendIds :
          /\ sends[s].pc = "delivered"
                => Cardinality({i \in 1..Len(notifications) :
                                   notifications[i].messageId = sends[s].messageId}) = 1
          /\ (sends[s].pc = "error" /\ sends[s].fault \notin {"messageCreate", "notificationCreate"})
                => sends[s].messageId = 0

\* Two sends ran to their end: two Messages, two Notifications.
C16_Witness ==
    /\ Len(messages) = 2
    /\ Len(notifications) = 2
    /\ \A s \in SendIds : sends[s].pc = "delivered"

\* ---- C17 --------------------------------------------------------------------
\* C17: the step that registers a socket and the step that disconnects one
\* each add exactly one user_status_update to the broadcasts, naming the
\* acting user with the tag of the step and going to every socket connected
\* after the step; no other step adds a broadcast.
C17_OneBroadcastPerChurn ==
    [][/\ \A h \in Handles :
             (Registers(h) \/ Disconnects(h))
                 => LET b == broadcasts'[Len(broadcasts')]
                    IN  /\ Len(broadcasts') = Len(broadcasts) + 1
                        /\ SubSeq(broadcasts', 1, Len(broadcasts)) = broadcasts
                        /\ b.event = "user_status_update"
                        /\ b.userId = conn'[h].user
                        /\ b.userId = conn'[h].token
                        /\ b.action = (IF Registers(h) THEN "connected" ELSE "disconnected")
                        /\ b.to = {g \in Handles : conn'[g].state = "open"}
                        /\ Registers(h) => h \in b.to
       /\ broadcasts' # broadcasts => \E h \in Handles : Registers(h) \/ Disconnects(h)
       /\ \A h \in Handles : \A i \in 1..Len(NewEvents(h)) :
             NewEvents(h)[i].event # "user_status_update"]_vars

\* A connect announced to two sockets and a disconnect announced to the one
\* that stayed.
C17_Witness ==
    /\ \E i \in 1..Len(broadcasts) :
          broadcasts[i].action = "connected" /\ Cardinality(broadcasts[i].to) = 2
    /\ \E i \in 1..Len(broadcasts) :
          broadcasts[i].action = "disconnected" /\ Cardinality(broadcasts[i].to) = 1

\* ---- C18 --------------------------------------------------------------------
\* The responses to send s on its own socket: messageErrors of the send and
\* messageUpdates that carry its message without a notification.
Responses(s) ==
    Cardinality(ErrorsOf(sends[s].conn, s))
        + Cardinality({i \in UpdatesOf(sends[s].conn, sends[s].messageId) :
                          "notification" \notin DOMAIN outbox[sends[s].conn][i]})

\* C18: a send has no response while it is under way and exactly one once it
\* has ended, a messageError or a messageUpdate and never both; and, every
\* awaited call returning in the end, every send does get its response.
C18_ExactlyOneResponse ==
    /\ [](\A s \in SendIds :
            /\ Responses(s) = (IF sends[s].pc \in {"error", "delivered"} THEN 1 ELSE 0)
            /\ sends[s].pc = "error" => Cardinality(ErrorsOf(sends[s].conn, s)) = 1
            /\ sends[s].pc = "delivered" => ErrorsOf(sends[s].conn, s) = {})
    /\ \A s \in 1..MaxSends :
          (s \in SendIds) ~> (s \in SendIds /\ Responses(s) = 1)

\* One send answered by a messageUpdate and one by a messageError.
C18_Witness ==
    /\ \E s \in SendIds :
          sends[s].pc = "delivered" /\ Responses(s) = 1 /\ ErrorsOf(sends[s].conn, s) = {}
    /\ \E s \in SendIds :
          sends[s].pc = "error" /\ ~sends[s].blank /\ Responses(s) = 1

\* ---- C19 --------------------------------------------------------------------
\* C19: every entry of the registry maps a user to a socket that was
\* resolved to that user and is connected; so every payload with a
\* notification was emitted to a socket of the receiver.
C19_NoDanglingHandle ==
    /\ \A i \in 1..Len(userSockets) :
          LET u == userSockets[i][1]
              h == userSockets[i][2]
          IN  /\ h \in Handles
              /\ conn[h].state = "open"
              /\ conn[h].user = u
              /\ conn[h].token = u
    /\ \A h \in Handles : \A i \in 1..Len(outbox[h]) :
          (outbox[h][i].event = "messageUpdate" /\ "notification" \in DOMAIN outbox[h][i])
              => /\ conn[h].state \in {"open", "closed"}
                 /\ conn[h].user = outbox[h][i].message.receiverId

\* After a disconnect the registry still holds the open socket of another
\* user, and that socket was sent a message.
C19_Witness ==
    /\ \E h \in Handles : conn[h].state = "closed"
    /\ \E i \in 1..Len(userSockets) :
          LET h == userSockets[i][2]
          IN  \E j \in 1..Len(outbox[h]) : "notification" \in DOMAIN outbox[h][j]

\* ---- C20 --------------------------------------------------------------------
\* C20: a step of a sendMessage invocation, whichever and however it ends,
\* changes neither the registry nor the state of any socket nor the
\* broadcasts; the registry changes only in the step that registers a socket
\* and in the step that disconnects one, and a socket closes only in its
\* own disconnect.
C20_SendLeavesRegistryAlone ==
    [][/\ sends' # sends
             => /\ userSockets' = userSockets
                /\ conn' = conn
                /\ broadcasts' = broadcasts
       /\ (messages' # messages \/ notifications' # notifications \/ outbox' # outbox)
             => /\ sends' # sends
                /\ userSockets' = userSockets
                /\ conn' = conn
       /\ userSockets' # userSockets
             => \E h \in Handles : Registers(h) \/ Disconnects(h)
       /\ \A h \in Handles :
             (conn[h].state = "open" /\ conn'[h].state # "open")
                 => Disconnects(h) /\ sends' = sends]_vars

\* A send was rejected and its socket is still open and on record.
C20_Witness ==
    \E s \in SendIds :
        /\ sends[s].pc = "error"
        /\ conn[sends[s].conn].state = "open"
        /\ RegisteredFor(userSockets, Sender(s)) = {sends[s].conn}
        /\ \A i \in 1..Len(broadcasts) : broadcasts[i].action = "connected"

====
